---- MODULE Spec2Model ----
(***************************************************************************)
(* Model of scripts/builder/subcommands.py of the esque build tool: the    *)
(* build() pipeline with its bitwise status aggregation, the stage         *)
(* functions, run_qemu() with its never-run guard, and the auxiliary       *)
(* commands clean() and setup() acting on the staging directories.         *)
(*                                                                         *)
(* Three specifications share the variables:                               *)
(*   Spec     one invocation of the command build or run_qemu, from any    *)
(*            configuration and any initial file tree;                     *)
(*   AggSpec  the aggregation of build() lines 26-42 applied to an         *)
(*            arbitrary sequence of stage status codes;                    *)
(*   FsSpec   successive invocations of clean and setup on a file tree.    *)
(***************************************************************************)
EXTENDS Integers, Sequences, FiniteSets, TLC

VARIABLES
    MINIMAL_TOOLCHAIN,  \* config.MINIMAL_TOOLCHAIN
    DOCUMENTATION,      \* config.DOCUMENTATION
    SHOULD_RUN,         \* config.SHOULD_RUN
    NEVER_RUN,          \* config.NEVER_RUN
    cmd,                \* the command being executed
    pc,                 \* position inside the command
    code,               \* the local variable `code` of build()
    outcome,            \* "running", "returned" or "raised"
    retval,             \* the Python value returned to the caller
    invoked,            \* stage functions called so far, in call order
    statuses,           \* the Python values those calls returned
    failed,             \* stages one of whose external commands failed
    launched,           \* emulator processes started through run()
    errors,             \* lines printed through error()
    fmtCalls,           \* cargo "fmt" invocations
    docCalls,           \* cargo "doc" invocations
    crateDirs,          \* number of directories under crates/
    fs,                 \* paths present in the working directory
    fmtAnswer,          \* what cargo "fmt" answers when it is invoked
    content,            \* which run wrote each staged artifact, and its state
    img,                \* the filesystem inside the image file
    reads,              \* artifacts the stages have read from build/
    stubs,              \* AggSpec: the status code each stage will return
    calls               \* FsSpec: the invocations made so far

vars == <<MINIMAL_TOOLCHAIN, DOCUMENTATION, SHOULD_RUN, NEVER_RUN, cmd, pc,
          code, outcome, retval, invoked, statuses, failed, launched, errors,
          fmtCalls, docCalls, crateDirs, fs, fmtAnswer, content, img, reads,
          stubs, calls>>

(* What stays fixed during a command: the configuration, the number of     *)
(* crate directories and the answer of the formatter.                       *)
config == <<MINIMAL_TOOLCHAIN, DOCUMENTATION, SHOULD_RUN, NEVER_RUN, crateDirs,
            fmtAnswer>>

(* The staged artifacts and the image. *)
staging == <<content, img, reads>>

(* Bounds of the model. *)
MaxStages == 8
MaxCrates == 1
MaxCalls == 3
MaxFailures == 1

---------------------------------------------------------------------------
(* Python values: the stage functions return an int or fall off their end  *)
(* and return None.                                                         *)

PyInt(n) == [type |-> "int", val |-> n]

PyNone == [type |-> "NoneType", val |-> 0]

(* ~ taken as the complement of an unsigned byte. *)
BitNotUnsigned8(a) == 255 - a

(* Python's ~ on int: two's complement of an unbounded integer. *)
BitNot(a) == -a - 1

(* Python's & on int: two's complement AND of unbounded integers. *)
RECURSIVE BitAnd(_, _)
BitAnd(a, b) ==
    IF a = 0 \/ b = 0 THEN 0
    ELSE IF a = -1 THEN b
    ELSE IF b = -1 THEN a
    ELSE (a % 2) * (b % 2) + 2 * BitAnd(a \div 2, b \div 2)

(* Aggregate with the complement of the composite forgotten. *)
AggregateKeepsComposite(status, composite) ==
    BitAnd(BitNot(status), composite)

(* code = ~stage() & ~code *)
Aggregate(status, composite) == BitAnd(BitNot(status), BitNot(composite))

(* ExitCode with the test  code == 0  dropped. *)
ExitCodeOnlyMinusOne(composite) == IF composite = -1 THEN 0 ELSE 1

(* if code == -1 or code == 0: return 0 / else: return 1 *)
ExitCode(composite) == IF composite = -1 \/ composite = 0 THEN 0 ELSE 1

---------------------------------------------------------------------------
(* The working directory: the paths the commands read and write.           *)

OUT_IMG == "image"

Paths == {"build", "build/www", "build/initramfs.tar", "build/esque",
          "build/BOOTX64.EFI", "target", "target/kernel", "target/boot.efi",
          "crates", OUT_IMG}

(* "." is the working directory itself, which always exists. *)
Parent(p) ==
    CASE p \in {"build/www", "build/initramfs.tar", "build/esque",
                "build/BOOTX64.EFI"} -> "build"
      [] p \in {"target/kernel", "target/boot.efi"} -> "target"
      [] OTHER -> "."

Exists(f, p) == p = "." \/ p \in f

(* The file trees: every path present has its parent present. *)
Trees == {f \in SUBSET Paths : \A p \in f : Exists(f, Parent(p))}

(* shutil.rmtree(p): FileNotFoundError when p is absent, else p and        *)
(* everything under it is removed.                                          *)
Rmtree(f, p) ==
    IF p \in f
    THEN [fs |-> {q \in f : q # p /\ Parent(q) # p}, exc |-> FALSE]
    ELSE [fs |-> f, exc |-> TRUE]

(* os.mkdir(p): FileExistsError when p is present, FileNotFoundError when  *)
(* its parent is absent.                                                    *)
Mkdir(f, p) ==
    IF p \notin f /\ Exists(f, Parent(p))
    THEN [fs |-> f \cup {p}, exc |-> FALSE]
    ELSE [fs |-> f, exc |-> TRUE]

(* shutil.copy(src, dst): FileNotFoundError when src or the directory of   *)
(* dst is absent.                                                           *)
Copy(f, src, dst) ==
    IF src \in f /\ Exists(f, Parent(dst))
    THEN [fs |-> f \cup {dst}, exc |-> FALSE]
    ELSE [fs |-> f, exc |-> TRUE]

(* cargo.run_cargo_command_in_workspace(ws, "build", flags): on success    *)
(* the compiled artifact is left under target/.                             *)
CargoBuild(f, artifact, ok) ==
    IF ok THEN f \cup {"target", artifact} ELSE f

---------------------------------------------------------------------------
(* The artifacts staged under build/ and their state: "old" when the     *)
(* file dates from before this run, "new" once a stage of this run has     *)
(* written it, "stripped" once strip has succeeded on a new binary.        *)
Artifacts == {"build/initramfs.tar", "build/esque", "build/BOOTX64.EFI"}

Binaries == {"build/esque", "build/BOOTX64.EFI"}

AllOld == [p \in Artifacts |-> "old"]

Written(c, wrote) == [p \in Artifacts |-> IF p \in wrote THEN "new" ELSE c[p]]

Stripped(c, done) ==
    [p \in Artifacts |-> IF p \in done /\ c[p] = "new" THEN "stripped"
                         ELSE c[p]]

(* The image file: whether it holds a FAT32 filesystem, and the entries of *)
(* that filesystem. "OLD" stands for anything a previous image held.       *)
ImgNames == {"EFI", "EFI/BOOT", "EFI/BOOT/BOOTX64.EFI", "esque", "font.psf",
             "startup.nsh", "initramfs.tar", "OLD"}

BlankImg == [fat32 |-> FALSE, entries |-> {}]

ExpectedImg == [fat32 |-> TRUE, entries |-> ImgNames \ {"OLD"}]

---------------------------------------------------------------------------
(* The stage functions. Each takes the file tree and the outcome of the    *)
(* external commands it runs, and yields the value returned (ret), whether *)
(* an exception left the function instead (exc), the new file tree, and    *)
(* the artifacts it wrote.                                                  *)

initramfs(f, ok) ==
    [ret |-> PyInt(0), exc |-> FALSE,
     fs |-> IF ok THEN f \cup {"build/initramfs.tar"} ELSE f,
     wrote |-> IF ok THEN {"build/initramfs.tar"} ELSE {}]

(* format with the MINIMAL_TOOLCHAIN test dropped. *)
format_always_runs(minimal, fmtResult) ==
    [ret |-> IF fmtResult = "None" THEN PyInt(1) ELSE PyInt(0),
     exc |-> FALSE, fmt |-> 1, ok |-> fmtResult # "None"]

(* format(): fmt is the number of cargo "fmt" invocations made, ok tells   *)
(* whether none of them failed.                                             *)
format(minimal, fmtResult) ==
    IF ~minimal
    THEN [ret |-> IF fmtResult = "None" THEN PyInt(1) ELSE PyInt(0),
          exc |-> FALSE, fmt |-> 1, ok |-> fmtResult # "None"]
    ELSE [ret |-> PyInt(0), exc |-> FALSE, fmt |-> 0, ok |-> TRUE]

(* The error() lines 69-75 printed when the guard is active. *)
GuardMessages == 7

(* run_qemu with the guard printing its messages but not returning. *)
run_qemu_guard_falls_through(never) ==
    IF never
    THEN [ret |-> PyNone, errors |-> GuardMessages, launched |-> 1]
    ELSE [ret |-> PyNone, errors |-> 0, launched |-> 1]

run_qemu(never) ==
    IF never
    THEN [ret |-> PyInt(1), errors |-> GuardMessages, launched |-> 0]
    ELSE [ret |-> PyNone, errors |-> 0, launched |-> 1]

build_kernel(f, ok) ==
    LET c == Copy(CargoBuild(f, "target/kernel", ok),
                  "target/kernel", "build/esque")
    IN [ret |-> PyInt(0), exc |-> c.exc, fs |-> c.fs,
        wrote |-> IF c.exc THEN {} ELSE {"build/esque"}]

build_boot(f, ok) ==
    LET c == Copy(CargoBuild(f, "target/boot.efi", ok),
                  "target/boot.efi", "build/BOOTX64.EFI")
    IN [ret |-> PyInt(0), exc |-> c.exc, fs |-> c.fs,
        wrote |-> IF c.exc THEN {} ELSE {"build/BOOTX64.EFI"}]

(* strip with the commands given files other than the staged binaries. *)
strip_wrong_files(f, oks) ==
    [ret |-> PyInt(0), exc |-> FALSE, fs |-> f, stripped |-> {},
     ok |-> Binaries \subseteq (oks \cap f)]

(* strip(): one strip command per binary; oks are the binaries whose       *)
(* command succeeds, which it can only on a file that exists.              *)
strip(f, oks) ==
    [ret |-> PyInt(0), exc |-> FALSE, fs |-> f, stripped |-> oks \cap f,
     ok |-> Binaries \subseteq (oks \cap f)]

(* The nine commands of image(), lines 100-108, by position. *)
ImageCommands == 1..9

(* The artifact of build/ that command k copies into the image, if any. *)
ImgSource(k) ==
    CASE k = 5 -> {"build/BOOTX64.EFI"}
      [] k = 6 -> {"build/esque"}
      [] k = 9 -> {"build/initramfs.tar"}
      [] OTHER -> {}

(* The entry command k adds to the filesystem of the image. *)
ImgEntry(k) ==
    CASE k = 3 -> {"EFI"}
      [] k = 4 -> {"EFI/BOOT"}
      [] k = 5 -> {"EFI/BOOT/BOOTX64.EFI"}
      [] k = 6 -> {"esque"}
      [] k = 7 -> {"font.psf"}
      [] k = 8 -> {"startup.nsh"}
      [] k = 9 -> {"initramfs.tar"}
      [] OTHER -> {}

(* Whether command k can succeed on file tree f and image im: dd always,   *)
(* mkfs.vfat on an existing file, mmd and mcopy on a FAT32 filesystem that *)
(* holds the parent directory and not yet the entry, mcopy with its source *)
(* present.                                                                 *)
ImgCan(k, f, im) ==
    CASE k = 1 -> TRUE
      [] k = 2 -> OUT_IMG \in f
      [] OTHER -> /\ OUT_IMG \in f /\ im.fat32
                  /\ ImgEntry(k) \cap im.entries = {}
                  /\ ImgSource(k) \subseteq f
                  /\ k = 4 => "EFI" \in im.entries
                  /\ k = 5 => "EFI/BOOT" \in im.entries

(* The effect of command k when it succeeds. *)
ImgDo(k, st) ==
    CASE k = 1 -> [st EXCEPT !.fs = @ \cup {OUT_IMG}, !.img = BlankImg]
      [] k = 2 -> [st EXCEPT !.img = [fat32 |-> TRUE, entries |-> {}]]
      [] OTHER -> [st EXCEPT !.img.entries = @ \cup ImgEntry(k),
                             !.copied = @ \cup ImgSource(k)]

(* Commands k..9 in order; a command in bad fails whatever the files, and  *)
(* no command's outcome is looked at.                                       *)
RECURSIVE ImgRun(_, _, _)
ImgRun(k, st, bad) ==
    IF k > 9 THEN st
    ELSE IF k \notin bad /\ ImgCan(k, st.fs, st.img)
         THEN ImgRun(k + 1, ImgDo(k, st), bad)
         ELSE ImgRun(k + 1, [st EXCEPT !.ok = FALSE], bad)

(* image with the dd and mkfs.vfat commands left out. *)
image_without_format(f, im, bad) ==
    LET st == ImgRun(3, [fs |-> f, img |-> im, copied |-> {}, ok |-> TRUE],
                     bad)
    IN [ret |-> PyInt(0), exc |-> FALSE, fs |-> st.fs, img |-> st.img,
        copied |-> st.copied, ok |-> st.ok]

(* image(): copied are the artifacts of build/ placed in the image, ok     *)
(* tells whether all nine commands succeeded.                               *)
image(f, im, bad) ==
    LET st == ImgRun(1, [fs |-> f, img |-> im, copied |-> {}, ok |-> TRUE],
                     bad)
    IN [ret |-> PyInt(0), exc |-> FALSE, fs |-> st.fs, img |-> st.img,
        copied |-> st.copied, ok |-> st.ok]

(* os.listdir("crates") raises FileNotFoundError when crates/ is absent;   *)
(* docs is the number of cargo "doc" invocations made.                      *)
build_docs(f, dirs) ==
    IF "crates" \in f
    THEN [ret |-> PyInt(0), exc |-> FALSE, fs |-> f, docs |-> 1 + dirs]
    ELSE [ret |-> PyInt(0), exc |-> TRUE, fs |-> f, docs |-> 1]

(* What the external command of a stage needs in order to succeed. *)
Needs(stage) ==
    CASE stage = "initramfs" -> {"build"}
      [] OTHER -> {}

CanSucceed(f, stage) == Needs(stage) \subseteq f

---------------------------------------------------------------------------
(* Spec: one invocation of build() or of run_qemu().                       *)

Init ==
    /\ MINIMAL_TOOLCHAIN \in BOOLEAN
    /\ DOCUMENTATION \in BOOLEAN
    /\ SHOULD_RUN \in BOOLEAN
    /\ NEVER_RUN \in BOOLEAN
    /\ cmd \in {"build", "run_qemu", "format"}
    /\ pc = IF cmd = "build" THEN "initramfs" ELSE cmd
    /\ code = 0
    /\ outcome = "running"
    /\ retval = PyNone
    /\ invoked = <<>>
    /\ statuses = <<>>
    /\ failed = {}
    /\ launched = 0
    /\ errors = 0
    /\ fmtCalls = 0
    /\ docCalls = 0
    /\ fs \in {f \in Trees : "build/www" \notin f}
    /\ crateDirs \in 0..MaxCrates
    /\ "crates" \notin fs => crateDirs = 0
    /\ fmtAnswer \in {"Some", "None"}
    /\ content = AllOld
    /\ img \in IF OUT_IMG \in fs
               THEN {BlankImg, ExpectedImg, [fat32 |-> TRUE, entries |-> {"OLD"}]}
               ELSE {BlankImg}
    /\ reads = {}
    /\ stubs = <<>>
    /\ calls = <<>>

(* An exception leaves build(): nothing is returned to the caller. *)
Raise ==
    /\ outcome' = "raised"
    /\ pc' = "done"

(* The statement  code = ~stage() & ~code  once the stage call has ended   *)
(* with r: an exception in the stage, or the TypeError of ~ applied to a   *)
(* value that is no int, leaves build().                                    *)
Fold(stage, r, next) ==
    /\ invoked' = Append(invoked, stage)
    /\ IF r.exc
       THEN Raise /\ UNCHANGED <<code, statuses>>
       ELSE /\ statuses' = Append(statuses, r.ret)
            /\ IF r.ret.type = "int"
               THEN /\ code' = Aggregate(r.ret.val, code)
                    /\ pc' = next
                    /\ UNCHANGED outcome
               ELSE Raise /\ UNCHANGED code

Fails(stage, ok) == failed' = IF ok THEN failed ELSE failed \cup {stage}

(* line 26: code = initramfs() *)
Build_initramfs ==
    /\ cmd = "build" /\ pc = "initramfs"
    /\ \E ok \in BOOLEAN :
        /\ ok => CanSucceed(fs, "initramfs")
        /\ LET r == initramfs(fs, ok)
           IN /\ invoked' = Append(invoked, "initramfs")
              /\ statuses' = Append(statuses, r.ret)
              /\ code' = r.ret.val
              /\ fs' = r.fs
              /\ content' = Written(content, r.wrote)
        /\ Fails("initramfs", ok)
    /\ pc' = "format"
    /\ UNCHANGED <<config, cmd, outcome, retval, launched, errors, fmtCalls,
                   docCalls, img, reads, stubs, calls>>

(* line 27: code = ~format() & ~code *)
Build_format ==
    /\ cmd = "build" /\ pc = "format"
    /\ LET r == format(MINIMAL_TOOLCHAIN, fmtAnswer)
       IN /\ Fold("format", r, "build_kernel")
          /\ Fails("format", r.ok)
          /\ fmtCalls' = fmtCalls + r.fmt
    /\ UNCHANGED <<config, cmd, retval, launched, errors, docCalls, fs,
                   staging, stubs, calls>>

(* line 28: code = ~build_kernel() & ~code *)
Build_build_kernel ==
    /\ cmd = "build" /\ pc = "build_kernel"
    /\ \E ok \in BOOLEAN :
        /\ LET r == build_kernel(fs, ok)
           IN /\ Fold("build_kernel", r, "build_boot")
              /\ fs' = r.fs
              /\ content' = Written(content, r.wrote)
        /\ Fails("build_kernel", ok)
    /\ UNCHANGED <<config, cmd, retval, launched, errors, fmtCalls, docCalls,
                   img, reads, stubs, calls>>

(* line 29: code = ~build_boot() & ~code *)
Build_build_boot ==
    /\ cmd = "build" /\ pc = "build_boot"
    /\ \E ok \in BOOLEAN :
        /\ LET r == build_boot(fs, ok)
           IN /\ Fold("build_boot", r, "strip")
              /\ fs' = r.fs
              /\ content' = Written(content, r.wrote)
        /\ Fails("build_boot", ok)
    /\ UNCHANGED <<config, cmd, retval, launched, errors, fmtCalls, docCalls,
                   img, reads, stubs, calls>>

(* What a stage read from build/: the artifact and the state it was in. *)
Reads(stage, paths) ==
    {[stage |-> stage, path |-> p, state |-> content[p]] : p \in paths}

(* line 30: code = ~strip() & ~code *)
Build_strip ==
    /\ cmd = "build" /\ pc = "strip"
    /\ \E oks \in SUBSET Binaries :
        LET r == strip(fs, oks)
        IN /\ Fold("strip", r, "image")
           /\ fs' = r.fs
           /\ reads' = reads \cup Reads("strip", r.stripped)
           /\ content' = Stripped(content, r.stripped)
           /\ Fails("strip", r.ok)
    /\ UNCHANGED <<config, cmd, retval, launched, errors, fmtCalls, docCalls,
                   img, stubs, calls>>

(* line 31: code = ~image() & ~code *)
Build_image ==
    /\ cmd = "build" /\ pc = "image"
    /\ \E bad \in SUBSET ImageCommands :
        /\ Cardinality(bad) <= MaxFailures
        /\ LET r == image(fs, img, bad)
           IN /\ Fold("image", r, "build_docs")
              /\ fs' = r.fs
              /\ img' = r.img
              /\ reads' = reads \cup Reads("image", r.copied)
              /\ Fails("image", r.ok)
    /\ UNCHANGED <<config, cmd, retval, launched, errors, fmtCalls, docCalls,
                   content, stubs, calls>>

(* lines 33-34: if config.DOCUMENTATION: code = ~build_docs() & ~code *)
Build_build_docs ==
    /\ cmd = "build" /\ pc = "build_docs"
    /\ IF DOCUMENTATION
       THEN \E ok \in BOOLEAN :
              LET r == build_docs(fs, crateDirs)
              IN /\ Fold("build_docs", r, "run_qemu")
                 /\ docCalls' = docCalls + r.docs
                 /\ Fails("build_docs", ok)
       ELSE /\ pc' = "run_qemu"
            /\ UNCHANGED <<code, outcome, invoked, statuses, failed, docCalls>>
    /\ UNCHANGED <<config, staging, cmd, retval, launched, errors, fmtCalls, fs, stubs,
                   calls>>

(* lines 36-37: if config.SHOULD_RUN: code = ~run_qemu() & ~code *)
Build_run_qemu ==
    /\ cmd = "build" /\ pc = "run_qemu"
    /\ IF SHOULD_RUN
       THEN LET r == run_qemu(NEVER_RUN)
            IN /\ Fold("run_qemu", [ret |-> r.ret, exc |-> FALSE], "return")
               /\ errors' = errors + r.errors
               /\ launched' = launched + r.launched
       ELSE /\ pc' = "return"
            /\ UNCHANGED <<code, outcome, invoked, statuses, launched, errors>>
    /\ UNCHANGED <<config, staging, cmd, retval, failed, fmtCalls, docCalls, fs, stubs,
                   calls>>

(* lines 39-42: the mapping of code to the value build() returns *)
Build_return ==
    /\ cmd = "build" /\ pc = "return"
    /\ retval' = PyInt(ExitCode(code))
    /\ outcome' = "returned"
    /\ pc' = "done"
    /\ UNCHANGED <<config, staging, cmd, code, invoked, statuses, failed, launched,
                   errors, fmtCalls, docCalls, fs, stubs, calls>>

(* run_qemu() invoked alone, as the command run_qemu *)
Cmd_run_qemu ==
    /\ cmd = "run_qemu" /\ pc = "run_qemu"
    /\ LET r == run_qemu(NEVER_RUN)
       IN /\ invoked' = Append(invoked, "run_qemu")
          /\ statuses' = Append(statuses, r.ret)
          /\ retval' = r.ret
          /\ errors' = errors + r.errors
          /\ launched' = launched + r.launched
    /\ outcome' = "returned"
    /\ pc' = "done"
    /\ UNCHANGED <<config, staging, cmd, code, failed, fmtCalls, docCalls, fs, stubs,
                   calls>>

(* format() invoked alone, as the command format *)
Cmd_format ==
    /\ cmd = "format" /\ pc = "format"
    /\ LET r == format(MINIMAL_TOOLCHAIN, fmtAnswer)
       IN /\ invoked' = Append(invoked, "format")
          /\ statuses' = Append(statuses, r.ret)
          /\ retval' = r.ret
          /\ Fails("format", r.ok)
          /\ fmtCalls' = fmtCalls + r.fmt
    /\ outcome' = "returned"
    /\ pc' = "done"
    /\ UNCHANGED <<config, staging, cmd, code, launched, errors, docCalls, fs,
                   stubs, calls>>

Next ==
    \/ Build_initramfs
    \/ Build_format
    \/ Build_build_kernel
    \/ Build_build_boot
    \/ Build_strip
    \/ Build_image
    \/ Build_build_docs
    \/ Build_run_qemu
    \/ Build_return
    \/ Cmd_run_qemu
    \/ Cmd_format

Spec == Init /\ [][Next]_vars

---------------------------------------------------------------------------
(* AggSpec: lines 26-42 of build() with each stage call replaced by the    *)
(* status code the stage returns, for every sequence of status codes.      *)

StatusSeqs == UNION {[1..n -> {0, 1}] : n \in 1..MaxStages}

AggInit ==
    /\ MINIMAL_TOOLCHAIN = FALSE
    /\ DOCUMENTATION = FALSE
    /\ SHOULD_RUN = FALSE
    /\ NEVER_RUN = FALSE
    /\ cmd = "aggregate"
    /\ pc = "first"
    /\ code = 0
    /\ outcome = "running"
    /\ retval = PyNone
    /\ invoked = <<>>
    /\ statuses = <<>>
    /\ failed = {}
    /\ launched = 0
    /\ errors = 0
    /\ fmtCalls = 0
    /\ docCalls = 0
    /\ fs = {}
    /\ crateDirs = 0
    /\ fmtAnswer = "Some"
    /\ content = AllOld
    /\ img = BlankImg
    /\ reads = {}
    /\ stubs \in StatusSeqs
    /\ calls = <<>>

(* line 26: the composite starts as the status of the first stage *)
Agg_first ==
    /\ cmd = "aggregate" /\ pc = "first"
    /\ code' = stubs[1]
    /\ statuses' = <<PyInt(stubs[1])>>
    /\ pc' = "next"
    /\ UNCHANGED <<config, staging, cmd, outcome, retval, invoked, failed, launched,
                   errors, fmtCalls, docCalls, fs, stubs, calls>>

(* lines 27-37: code = ~status & ~code for each later stage *)
Agg_next ==
    /\ cmd = "aggregate" /\ pc = "next"
    /\ Len(statuses) < Len(stubs)
    /\ LET status == stubs[Len(statuses) + 1]
       IN /\ code' = Aggregate(status, code)
          /\ statuses' = Append(statuses, PyInt(status))
    /\ UNCHANGED <<config, staging, cmd, pc, outcome, retval, invoked, failed,
                   launched, errors, fmtCalls, docCalls, fs, stubs, calls>>

(* lines 39-42: the mapping to the exit code, after the last stage *)
Agg_return ==
    /\ cmd = "aggregate" /\ pc = "next"
    /\ Len(statuses) = Len(stubs)
    /\ retval' = PyInt(ExitCode(code))
    /\ outcome' = "returned"
    /\ pc' = "done"
    /\ UNCHANGED <<config, staging, cmd, code, invoked, statuses, failed, launched,
                   errors, fmtCalls, docCalls, fs, stubs, calls>>

AggNext == Agg_first \/ Agg_next \/ Agg_return

AggSpec == AggInit /\ [][AggNext]_vars

---------------------------------------------------------------------------
(* FsSpec: the commands clean and setup, invoked one after another on the  *)
(* same working directory.                                                  *)

(* clean with the except clause letting the error through. *)
clean_propagates(f) ==
    LET r1 == Rmtree(f, "build")
        r2 == Rmtree(r1.fs, "target")
        r3 == Mkdir(r2.fs, "build")
    IN IF r1.exc
       THEN [ret |-> PyNone, exc |-> TRUE, ok |-> FALSE, fs |-> r1.fs]
       ELSE IF r2.exc
       THEN [ret |-> PyNone, exc |-> TRUE, ok |-> FALSE, fs |-> r2.fs]
       ELSE [ret |-> PyInt(0), exc |-> FALSE, ok |-> TRUE, fs |-> r3.fs]

(* clean(): the three directory operations run inside one try block whose  *)
(* except clause returns 0, so the first one to raise ends the function.   *)
(* ok tells whether none of them raised.                                    *)
clean(f) ==
    LET r1 == Rmtree(f, "build")
        r2 == Rmtree(r1.fs, "target")
        r3 == Mkdir(r2.fs, "build")
    IN IF r1.exc
       THEN [ret |-> PyInt(0), exc |-> FALSE, ok |-> FALSE, fs |-> r1.fs]
       ELSE IF r2.exc
       THEN [ret |-> PyInt(0), exc |-> FALSE, ok |-> FALSE, fs |-> r2.fs]
       ELSE [ret |-> PyInt(0), exc |-> FALSE, ok |-> ~r3.exc, fs |-> r3.fs]

(* setup with each os.mkdir guarded on its own. *)
setup_each_mkdir_guarded(f) ==
    LET r1 == Mkdir(f, "build")
        r2 == Mkdir(r1.fs, "build/www")
    IN [ret |-> PyInt(0), exc |-> FALSE, ok |-> ~r1.exc /\ ~r2.exc,
        fs |-> r2.fs]

(* setup(): os.mkdir("build") then os.mkdir("build/www") inside one try    *)
(* block whose except clause passes; 0 is returned either way.             *)
setup(f) ==
    LET r1 == Mkdir(f, "build")
        r2 == Mkdir(r1.fs, "build/www")
    IN IF r1.exc
       THEN [ret |-> PyInt(0), exc |-> FALSE, ok |-> FALSE, fs |-> r1.fs]
       ELSE [ret |-> PyInt(0), exc |-> FALSE, ok |-> ~r2.exc, fs |-> r2.fs]

(* cloc(): run(["bash", "scripts/cloc.sh"]), whose outcome is not looked   *)
(* at, then return 0.                                                       *)
cloc(f, ok) == [ret |-> PyInt(0), exc |-> FALSE, ok |-> ok, fs |-> f]

(* count_unsafe(): run(["bash", "scripts/unsafe-counter.sh"]), return 0.   *)
count_unsafe(f, ok) == [ret |-> PyInt(0), exc |-> FALSE, ok |-> ok, fs |-> f]

FsInit ==
    /\ MINIMAL_TOOLCHAIN = FALSE
    /\ DOCUMENTATION = FALSE
    /\ SHOULD_RUN = FALSE
    /\ NEVER_RUN = FALSE
    /\ cmd = "shell"
    /\ pc = "prompt"
    /\ code = 0
    /\ outcome = "running"
    /\ retval = PyNone
    /\ invoked = <<>>
    /\ statuses = <<>>
    /\ failed = {}
    /\ launched = 0
    /\ errors = 0
    /\ fmtCalls = 0
    /\ docCalls = 0
    /\ fs \in Trees
    /\ crateDirs = 0
    /\ fmtAnswer = "Some"
    /\ content = AllOld
    /\ img = BlankImg
    /\ reads = {}
    /\ stubs = <<>>
    /\ calls = <<>>

(* One invocation of a command: what it was, what it returned, whether it  *)
(* raised, whether everything it did underneath succeeded, and the file    *)
(* tree before and after it.                                                *)
Invoke(name, r) ==
    /\ Len(calls) < MaxCalls
    /\ fs' = r.fs
    /\ calls' = Append(calls, [cmd |-> name, ret |-> r.ret, exc |-> r.exc,
                               ok |-> r.ok, before |-> fs, after |-> r.fs])
    /\ UNCHANGED <<config, staging, cmd, pc, code, outcome, retval, invoked, statuses,
                   failed, launched, errors, fmtCalls, docCalls, stubs>>

Cmd_clean == cmd = "shell" /\ Invoke("clean", clean(fs))

Cmd_setup == cmd = "shell" /\ Invoke("setup", setup(fs))

Cmd_cloc == cmd = "shell" /\ \E ok \in BOOLEAN : Invoke("cloc", cloc(fs, ok))

Cmd_count_unsafe ==
    cmd = "shell" /\ \E ok \in BOOLEAN :
        Invoke("count_unsafe", count_unsafe(fs, ok))

FsNext == Cmd_clean \/ Cmd_setup \/ Cmd_cloc \/ Cmd_count_unsafe

FsSpec == FsInit /\ [][FsNext]_vars

---------------------------------------------------------------------------
(* Properties of build() and run_qemu(), checked under Spec.               *)

Range(q) == {q[i] : i \in DOMAIN q}

BuildEnded == cmd = "build" /\ pc = "done"

Returned(n) == outcome = "returned" /\ retval = PyInt(n)

(* The stage order of build(), lines 26-37. *)
StageOrder == <<"initramfs", "format", "build_kernel", "build_boot", "strip",
                "image", "build_docs", "run_qemu">>

Enabled(stage) ==
    CASE stage = "format" -> ~MINIMAL_TOOLCHAIN
      [] stage = "build_docs" -> DOCUMENTATION
      [] stage = "run_qemu" -> SHOULD_RUN
      [] OTHER -> TRUE

EnabledStages == SelectSeq(StageOrder, Enabled)

(* Every stage called so far returned, none of them 1, and none of the     *)
(* external commands they ran failed.                                       *)
StagesSucceeded ==
    /\ failed = {}
    /\ Len(statuses) = Len(invoked)
    /\ PyInt(1) \notin Range(statuses)

(* C1: build() never raises and returns 0 or 1; stated on the case the     *)
(* claim singles out, SHOULD_RUN true and NEVER_RUN false with run_qemu()  *)
(* reached, so that its return value is complemented and folded.           *)
C1_BuildReturnsZeroOrOne ==
    (BuildEnded /\ SHOULD_RUN /\ ~NEVER_RUN /\ "run_qemu" \in Range(invoked))
        => (Returned(0) \/ Returned(1))

(* C3: with format-sources skipped (MINIMAL_TOOLCHAIN) and every stage     *)
(* that ran succeeding, build() returns 0, for every DOCUMENTATION and     *)
(* SHOULD_RUN, the emulator being launched included.                        *)
C3_MinimalAllSucceedReturnsZero ==
    (BuildEnded /\ MINIMAL_TOOLCHAIN /\ StagesSucceeded) => Returned(0)

(* C4: at the end of build() every enabled stage has been invoked exactly  *)
(* once, in the fixed order (a skipped format-sources may or may not be    *)
(* counted), whatever the earlier stages did.                               *)
C4_EachEnabledStageOnceInOrder ==
    BuildEnded =>
        SelectSeq(invoked, Enabled) = EnabledStages

(* C5: when NEVER_RUN is set no emulator process is ever launched, and a   *)
(* call of run_qemu(), alone or as the last stage of build(), returns 1    *)
(* after printing the explanatory messages.                                 *)
C5_GuardReturnsFailureNoLaunch ==
    NEVER_RUN =>
        /\ launched = 0
        /\ "run_qemu" \in Range(invoked) =>
              /\ Len(statuses) = Len(invoked)
              /\ invoked[Len(invoked)] = "run_qemu"
              /\ statuses[Len(statuses)] = PyInt(1)
              /\ errors = GuardMessages

C5_Witness ==
    /\ BuildEnded /\ SHOULD_RUN /\ NEVER_RUN
    /\ "run_qemu" \in Range(invoked)
    /\ statuses[Len(statuses)] = PyInt(1)
    /\ errors = GuardMessages /\ launched = 0

(* C6: when build() runs with SHOULD_RUN and NEVER_RUN, so that            *)
(* run-emulator returns Failure, build() returns exit code 1.               *)
C6_GuardFailureReturnsOne ==
    (BuildEnded /\ SHOULD_RUN /\ NEVER_RUN /\ "run_qemu" \in Range(invoked))
        => Returned(1)

(* C9: with DOCUMENTATION false, SHOULD_RUN false and MINIMAL_TOOLCHAIN    *)
(* true, and every external command succeeding, build() runs exactly       *)
(* initramfs, build-kernel, build-bootloader, strip and image (format does *)
(* no work, build-docs and run-emulator are not invoked) and returns 0.    *)
C9_MinimalFiveStages ==
    (BuildEnded /\ ~DOCUMENTATION /\ ~SHOULD_RUN /\ MINIMAL_TOOLCHAIN
        /\ failed = {})
        => /\ SelectSeq(invoked, LAMBDA st : st # "format")
                = <<"initramfs", "build_kernel", "build_boot", "strip",
                    "image">>
           /\ fmtCalls = 0 /\ docCalls = 0 /\ launched = 0
           /\ Returned(0)

C9_Witness ==
    /\ BuildEnded /\ ~DOCUMENTATION /\ ~SHOULD_RUN /\ MINIMAL_TOOLCHAIN
    /\ failed = {}
    /\ Len(invoked) = 6
    /\ Returned(0)
    /\ {"build/initramfs.tar", "build/esque", "build/BOOTX64.EFI", OUT_IMG}
           \subseteq fs

(* C10: every value a stage function returns is the StatusCode 0 or 1.     *)
C10_StatusesZeroOrOne ==
    \A i \in DOMAIN statuses : statuses[i] \in {PyInt(0), PyInt(1)}

---------------------------------------------------------------------------
(* Properties of the aggregation, checked under AggSpec.                   *)

AllSuccess == \A i \in DOMAIN stubs : stubs[i] = 0

SuccessMapped == code \in {-1, 0}

LastTwoSucceed ==
    /\ Len(stubs) >= 3
    /\ stubs[Len(stubs)] = 0
    /\ stubs[Len(stubs) - 1] = 0

Failures == {i \in DOMAIN stubs : stubs[i] = 1}

LastFailure == CHOOSE i \in Failures : \A j \in Failures : j <= i

(* C2: when every stage returns 0 the composite is -1 or 0 after every     *)
(* stage, whatever the number of stages, and the exit code is 0.           *)
C2_AllSuccessResolvesToSuccess ==
    (AllSuccess /\ statuses # <<>>)
        => /\ SuccessMapped
           /\ pc = "done" => Returned(0)

C2_Witness ==
    /\ AllSuccess /\ Len(stubs) >= 4 /\ pc = "done"
    /\ code = -1 /\ Returned(0)

(* C7 as claimed: when the last two of at least three stages return 0 the  *)
(* final composite is -1 or 0 and the exit code 0, whatever the earlier    *)
(* stages returned.                                                         *)
C7_LastTwoSuccessesMask ==
    (pc = "done" /\ LastTwoSucceed) => (SuccessMapped /\ Returned(0))

(* C7 as amended: when the last two of at least three stages return 0 the  *)
(* final composite is -1 or 0 (exit code 0) exactly when no stage returned *)
(* 1 or the last stage that returned 1 is the 3rd, 5th, 7th, ... of the    *)
(* sequence; otherwise the exit code is 1.                                  *)
C7_MaskedIffLastFailureAtOddPosition ==
    (pc = "done" /\ LastTwoSucceed)
        => LET masked == Failures = {}
                           \/ (LastFailure >= 3 /\ LastFailure % 2 = 1)
           IN /\ SuccessMapped <=> masked
              /\ Returned(IF masked THEN 0 ELSE 1)

C7_Witness ==
    /\ pc = "done" /\ LastTwoSucceed
    /\ stubs = <<0, 1, 1, 0, 0>>
    /\ SuccessMapped /\ Returned(0)

---------------------------------------------------------------------------
(* Properties of clean(), checked under FsSpec.                            *)

StagingEmpty(f) == "build" \in f /\ \A p \in f : Parent(p) # "build"

CleanOk(c) == ~c.exc /\ c.ret = PyInt(0) /\ StagingEmpty(c.after)

(* C8: two successive invocations of clean() never fail, and after each of *)
(* them the directory build exists and is empty.                            *)
C8_CleanTwiceLeavesEmptyBuild ==
    \A i \in 1..(Len(calls) - 1) :
        (calls[i].cmd = "clean" /\ calls[i + 1].cmd = "clean")
            => (CleanOk(calls[i]) /\ CleanOk(calls[i + 1]))

(* C11: every invocation of clean, setup, cloc and count_unsafe returns 0  *)
(* and lets no error through, whatever the file tree before it and whether *)
(* or not what it did underneath succeeded.                                 *)
C11_AuxiliaryCommandsReturnZero ==
    \A i \in DOMAIN calls :
        calls[i].cmd \in {"clean", "setup", "cloc", "count_unsafe"}
            => (~calls[i].exc /\ calls[i].ret = PyInt(0))

C11_Witness ==
    /\ Len(calls) = 3
    /\ calls[1].cmd = "clean" /\ ~calls[1].ok /\ "build" \notin calls[1].before
    /\ calls[2].cmd = "setup" /\ calls[2].ok
    /\ calls[3].cmd = "setup" /\ ~calls[3].ok
    /\ \A i \in 1..3 : calls[i].ret = PyInt(0) /\ ~calls[i].exc

(* C18: setup() removes nothing, changes nothing when build/ exists, and   *)
(* creates build/www only when build/ was absent; so clean() then setup()  *)
(* from a tree with build/ and target/ leaves build/ without build/www.    *)
C18_SetupFrame ==
    /\ \A i \in DOMAIN calls :
           calls[i].cmd = "setup" =>
               /\ calls[i].before \subseteq calls[i].after
               /\ "build" \in calls[i].before
                      => calls[i].after = calls[i].before
               /\ "build/www" \in calls[i].after \ calls[i].before
                      => "build" \notin calls[i].before
    /\ \A i \in 1..(Len(calls) - 1) :
           (/\ calls[i].cmd = "clean"
            /\ {"build", "target"} \subseteq calls[i].before
            /\ calls[i + 1].cmd = "setup")
               => /\ "build" \in calls[i + 1].after
                  /\ "build/www" \notin calls[i + 1].after

C18_Witness ==
    /\ Len(calls) >= 2
    /\ calls[1].cmd = "clean"
    /\ {"build", "build/www", "target"} \subseteq calls[1].before
    /\ calls[2].cmd = "setup"
    /\ "build" \in calls[2].after /\ "build/www" \notin calls[2].after

---------------------------------------------------------------------------
(* Properties of the stages of build(), checked under Spec.                *)

Ran(stage) == stage \in Range(invoked)

(* C12 as claimed: once image() has run, the image file holds a FAT32      *)
(* filesystem with exactly the expected entries, whatever it held before.  *)
C12_ImageExactAfterRun ==
    Ran("image") => (OUT_IMG \in fs /\ img = ExpectedImg)

(* C12 as amended: once image() has run with all nine of its commands      *)
(* succeeding, the image file holds a FAT32 filesystem with exactly the    *)
(* expected entries, whatever it held before.                               *)
C12_ImageExactWhenCommandsSucceed ==
    (Ran("image") /\ "image" \notin failed)
        => (OUT_IMG \in fs /\ img = ExpectedImg)

C12_Witness ==
    /\ BuildEnded /\ Ran("image") /\ failed = {}
    /\ OUT_IMG \in fs /\ img = ExpectedImg

(* C13 as claimed: every artifact of build/ that strip or image read was   *)
(* written by an earlier stage of this run, and the binaries image copied  *)
(* were stripped ones.                                                      *)
C13_ReadsWrittenThisRun ==
    \A r \in reads :
        /\ r.state # "old"
        /\ (r.stage = "image" /\ r.path \in Binaries) => r.state = "stripped"

(* C13 as amended: the binaries strip and image read were always written   *)
(* by build_kernel and build_boot earlier in this run; when the tar        *)
(* command of initramfs and both strip commands succeeded, the archive     *)
(* image copied was written in this run and the binaries it copied were    *)
(* stripped ones.                                                           *)
C13_ReadsWrittenWhenCommandsSucceed ==
    \A r \in reads :
        /\ r.path \in Binaries => r.state # "old"
        /\ r.stage = "strip" => r.state = "new"
        /\ "initramfs" \notin failed => r.state # "old"
        /\ (r.stage = "image" /\ r.path \in Binaries /\ "strip" \notin failed)
               => r.state = "stripped"

C13_Witness ==
    /\ BuildEnded /\ failed = {}
    /\ {r.path : r \in {q \in reads : q.stage = "image"}} = Artifacts
    /\ {r.path : r \in {q \in reads : q.stage = "strip"}} = Binaries
    /\ C13_ReadsWrittenThisRun

(* C14: format() returns 1 exactly when MINIMAL_TOOLCHAIN is false and     *)
(* cargo fmt answers None, and 0 otherwise; under MINIMAL_TOOLCHAIN cargo  *)
(* fmt is not invoked.                                                      *)
C14_FormatStatus ==
    \A i \in DOMAIN invoked :
        invoked[i] = "format" =>
            /\ i \in DOMAIN statuses
            /\ statuses[i] = IF ~MINIMAL_TOOLCHAIN /\ fmtAnswer = "None"
                             THEN PyInt(1) ELSE PyInt(0)
            /\ fmtCalls = IF MINIMAL_TOOLCHAIN THEN 0 ELSE 1

C14_Witness ==
    /\ cmd = "build" /\ ~MINIMAL_TOOLCHAIN /\ fmtAnswer = "None"
    /\ Len(statuses) >= 2 /\ statuses[2] = PyInt(1) /\ fmtCalls = 1

Before(a, b) ==
    \E i, j \in DOMAIN invoked : i < j /\ invoked[i] = a /\ invoked[j] = b

(* C15: at the end of build() the emulator has been launched if and only   *)
(* if SHOULD_RUN and not NEVER_RUN, build_docs has been invoked if and     *)
(* only if DOCUMENTATION, and a launch came last, after image and after    *)
(* build_docs when enabled.                                                 *)
C15_LaunchAndDocsGating ==
    BuildEnded =>
        /\ launched = 1 <=> (SHOULD_RUN /\ ~NEVER_RUN)
        /\ launched \in {0, 1}
        /\ Ran("build_docs") <=> DOCUMENTATION
        /\ launched = 1 =>
              /\ invoked[Len(invoked)] = "run_qemu"
              /\ Before("image", "run_qemu")
              /\ DOCUMENTATION => Before("build_docs", "run_qemu")

FailureMapped(c) == c \in {-2, 1}

(* The stage that just returned, if one did in this step, returned 0. *)
StageReturnedZero ==
    /\ Len(statuses') = Len(statuses) + 1
    /\ statuses'[Len(statuses')] = PyInt(0)

(* Only format returned 1: every stage called has returned, format with 1  *)
(* and the others with 0.                                                   *)
OnlyFormatFailed ==
    /\ Len(statuses) = Len(invoked)
    /\ \A i \in DOMAIN invoked :
           statuses[i] = IF invoked[i] = "format" THEN PyInt(1) ELSE PyInt(0)

(* C16: a failure-mapped composite (-2 or 1) stays failure-mapped, moving  *)
(* to the other of the two values, when a stage returns 0; and build()     *)
(* returns 1 when format returned 1 and every other stage returned 0,      *)
(* with or without DOCUMENTATION.                                           *)
C16_FailureSticksUnderSuccess ==
    /\ [][(cmd = "build" /\ FailureMapped(code) /\ StageReturnedZero)
             => (FailureMapped(code') /\ code' # code)]_vars
    /\ []((BuildEnded /\ outcome = "returned" /\ OnlyFormatFailed)
             => Returned(1))

C16_Witness ==
    /\ BuildEnded /\ DOCUMENTATION /\ OnlyFormatFailed
    /\ Ran("format") /\ Ran("build_docs")
    /\ code = 1 /\ Returned(1)

---------------------------------------------------------------------------
(* Further properties of the aggregation, checked under AggSpec.           *)

(* C17: with every status 0 or 1 the composite is 0, -1, -2 or 1 after     *)
(* every step, and the exit code is 0 for 0 and -1, 1 for -2 and 1.        *)
C17_CompositeRange ==
    /\ code \in {0, -1, -2, 1}
    /\ pc = "done" => /\ code \in {0, -1} => Returned(0)
                      /\ code \in {-2, 1} => Returned(1)

C17_Witness == pc = "done" /\ code = -2 /\ Returned(1)

====
